---- MODULE Spec2Model ----
(***************************************************************************)
(* Model of lib/bundling.ts: the Bundling class that chooses between local *)
(* (host) bundling through cargo lambda and Docker bundling.               *)
(*                                                                         *)
(* JavaScript values are represented as follows.                           *)
(*   - boolean | undefined : the strings "true", "false", "undefined"      *)
(*   - T | undefined / null: None (<<>>) or Some(v) (<<v>>)                *)
(*   - { [key]: string }   : a function from a finite set of keys          *)
(*   - string              : a sequence of one-character strings; fixed    *)
(*                           text of the program is one opaque element     *)
(***************************************************************************)
EXTENDS Integers, Sequences, FiniteSets, TLC

\* ---------------------------------------------------------------- bounds
\* Number of Bundling instances constructed in one process.
MaxInstances == 2

\* ------------------------------------------------------- JavaScript values
Undefined == "undefined"
None == <<>>
Some(v) == <<v>>
IsSome(o) == Len(o) = 1
Val(o) == o[1]

\* a ?? b on boolean | undefined
Coalesce(a, b) == IF a = Undefined THEN b ELSE a
\* truthiness of boolean | undefined
Truthy(b) == b = "true"

EmptyEnv == [k \in {} |-> ""]
\* { ...a, ...b }
Spread(a, b) == [k \in (DOMAIN a) \cup (DOMAIN b) |-> IF k \in DOMAIN b THEN b[k] ELSE a[k]]

\* number of occurrences of the string sub in the string s
Occurrences(sub, s) ==
    Cardinality({i \in 1..(Len(s) - Len(sub) + 1) : SubSeq(s, i, i + Len(sub) - 1) = sub})
Contains(sub, s) == Occurrences(sub, s) >= 1

\* ------------------------------------------------------------ input sets
\* props.forcedDockerBundling?: boolean
ForcedValues == {"true", "false", Undefined}
\* outcomes of a version query of cargo lambda on the host; "failing" stands
\* for a missing tool, a nonzero exit and an unparsable output alike
ToolStates == {"ok", "failing"}
\* os.platform()
HostPlatforms == {"linux", "win32", "freebsd"}
\* process.env
AmbientEnvs == {[k \in {"PATH", "CC"} |-> "amb"]}
\* Settings.BUILD_ENVIRONMENT
DefaultEnvs == {None, Some([k \in {"CC"} |-> "def"])}
\* props.buildEnvironment
CallerEnvs == {None, Some(EmptyEnv), Some([k \in {"PATH", "RUSTFLAGS"} |-> "own"])}
\* props.target together with props.bin
Crates == {
    [target |-> <<"a">>, bin |-> None],
    [target |-> <<"t">>, bin |-> Some(<<"c">>)] }
\* props.entry
Entries == {<<"/", "p">>}
\* the outDir argument of tryBundle
OutDirs == {<<"b">>, <<"b", "/", "a">>}
\* AssetStaging.BUNDLING_INPUT_DIR, AssetStaging.BUNDLING_OUTPUT_DIR
BUNDLING_INPUT_DIR == <<"/", "i">>
BUNDLING_OUTPUT_DIR == <<"/", "o">>

BundlingPropsSet ==
    {[forcedDockerBundling |-> f,
      buildEnvironment |-> e,
      entry |-> d,
      bin |-> c.bin,
      target |-> c.target] :
        f \in ForcedValues, e \in CallerEnvs, d \in Entries, c \in Crates}

\* what spawnSync returns: status is None for null, stderr is None for null
SpawnResults == {
    [status |-> Some(0), stderr |-> Some(<<"w">>)],   \* success
    [status |-> Some(1), stderr |-> Some(<<"e">>)],   \* the build failed
    [status |-> None,    stderr |-> Some(<<"e">>)],   \* killed by a signal
    [status |-> None,    stderr |-> None] }           \* could not be spawned

VARIABLES
    runsLocally,    \* Bundling.runsLocally (static)
    tool,           \* what the host would answer to a probe now
    probes,         \* number of calls of getCargoLambdaVersion so far
    hostOs,         \* os.platform()
    processEnv,     \* process.env
    settingsEnv,    \* Settings.BUILD_ENVIRONMENT
    instances,      \* the Bundling instances constructed so far
    call,           \* the latest tryBundle call
    halted          \* process.exit was called

vars == <<runsLocally, tool, probes, hostOs, processEnv, settingsEnv, instances, call, halted>>

\* -------------------------------------------------------- collaborators
\* getCargoLambdaVersion() of ./utils: a version query of the native tool;
\* any failure gives undefined, anything else true.
getCargoLambdaVersion(t) == IF t = "ok" THEN "true" ELSE Undefined

\* createBuildCommand() of ./build.
SupportedPlatforms == {"linux", "darwin", "win32"}
ShellPrefix(targetPlatform) ==
    CASE targetPlatform = "linux" -> <<>>
      [] targetPlatform = "win32" -> <<"<win32 shell> ">>
      [] OTHER -> <<"<posix shell> ">>
\* [ok |-> FALSE] stands for the ConfigurationError that is thrown.
createBuildCommand(o) ==
    IF o.targetPlatform \notin SupportedPlatforms
    THEN [ok |-> FALSE, cmd |-> <<>>]
    ELSE [ok |-> TRUE,
          cmd |-> ShellPrefix(o.targetPlatform)
                  \o <<"cargo lambda build --release --target ">> \o o.target
                  \o <<" --lambda-dir ">> \o o.outDir
                  \o (IF IsSome(o.bin) THEN <<" --bin ">> \o Val(o.bin) ELSE <<>>)]



\* Bundling.runsLocally ?? getCargoLambdaVersion(), without the ?? false
ResolveRunsLocallyNoDefault(cached, t) ==
    Coalesce(cached, getCargoLambdaVersion(t))

\* a constructor that probes again on every construction
ResolveRunsLocallyReprobe(cached, t) ==
    Coalesce(getCargoLambdaVersion(t), "false")

\* ---------------------------------------------------------- constructor
\* Bundling.runsLocally ?? getCargoLambdaVersion() ?? false
ResolveRunsLocally(cached, t) ==
    Coalesce(Coalesce(cached, getCargoLambdaVersion(t)), "false")


\* Bundling.runsLocally || getCargoLambdaVersion(): a cached false probes again
ProbesCalledOnFalsy(cached) == IF cached # "true" THEN 1 ELSE 0

\* getCargoLambdaVersion() is evaluated only when the cache is undefined
ProbesCalled(cached) == IF cached = Undefined THEN 1 ELSE 0

\* props.buildEnvironment || Settings.BUILD_ENVIRONMENT
InputEnv(buildEnvironment, defaults) ==
    IF IsSome(buildEnvironment) THEN buildEnvironment ELSE defaults



\* props.forcedDockerBundling && !Bundling.runsLocally
ShouldBuildImageBoth(forced, runs) == Truthy(forced) /\ ~Truthy(runs)

\* an image decision that looks at the override alone
ShouldBuildImageForcedOnly(forced, runs) == Truthy(forced)

\* props.forcedDockerBundling || !Bundling.runsLocally
ShouldBuildImage(forced, runs) == Truthy(forced) \/ ~Truthy(runs)

ImageOf(forced, runs) ==
    IF ShouldBuildImage(forced, runs) THEN "fromBuild" ELSE "fromRegistry(dummy)"

\* the options of the createBuildCommand call of the constructor
ContainerBuildOptions(props) ==
    [entry |-> BUNDLING_INPUT_DIR,
     bin |-> props.bin,
     target |-> props.target,
     outDir |-> BUNDLING_OUTPUT_DIR,
     targetPlatform |-> "linux"]


\* a constructor that always offers the local executor
HasLocalAlways(forced) == TRUE

\* if (!props.forcedDockerBundling) { this.local = ... }
HasLocal(forced) == ~Truthy(forced)

\* the instance the constructor leaves, given the resolved cache
NewBundling(props, runs, defaults, platform) ==
    [props |-> props,
     inputEnv |-> InputEnv(props.buildEnvironment, defaults),
     osPlatform |-> platform,
     image |-> ImageOf(props.forcedDockerBundling, runs),
     command |-> <<<<"bash">>, <<"-c">>,
                   createBuildCommand(ContainerBuildOptions(props)).cmd>>,
     environment |-> InputEnv(props.buildEnvironment, defaults),
     user |-> "root",
     local |-> HasLocal(props.forcedDockerBundling)]

\* ------------------------------------------------------------- tryBundle
NoCall ==
    [phase |-> "none", inst |-> 0, outDir |-> <<>>, built |-> FALSE,
     buildCommand |-> None, spawns |-> 0, spawn |-> None, result |-> None,
     stderr |-> <<>>]


\* a tryBundle that builds into the entry directory instead of outDir
HostBuildOptionsIntoEntry(b, outDir) ==
    [entry |-> b.props.entry,
     bin |-> b.props.bin,
     target |-> b.props.target,
     outDir |-> b.props.entry,
     targetPlatform |-> b.osPlatform]

\* the options of the createBuildCommand call of tryBundle
HostBuildOptions(b, outDir) ==
    [entry |-> b.props.entry,
     bin |-> b.props.bin,
     target |-> b.props.target,
     outDir |-> outDir,
     targetPlatform |-> b.osPlatform]


\* { ...inputEnv ?? {}, ...process.env }: the ambient environment wins
SpawnEnvAmbientWins(ambient, inputEnv) ==
    Spread(IF IsSome(inputEnv) THEN Val(inputEnv) ELSE EmptyEnv, ambient)

\* { ...process.env, ...inputEnv ?? {} }
SpawnEnv(ambient, inputEnv) ==
    Spread(ambient, IF IsSome(inputEnv) THEN Val(inputEnv) ELSE EmptyEnv)

\* the arguments of spawnSync
SpawnArgs(b, buildCommand, ambient) ==
    [file |-> IF b.osPlatform = "win32" THEN "cmd" ELSE "bash",
     args |-> <<IF b.osPlatform = "win32" THEN <<"/c">> ELSE <<"-c">>, buildCommand>>,
     env |-> SpawnEnv(ambient, b.inputEnv),
     cwd |-> b.props.entry,
     windowsVerbatimArguments |-> (b.osPlatform = "win32")]


\* a tryBundle without the check of Bundling.runsLocally
TryBundleEntryNoRecheck(b, i, outDir, runs, ambient) ==
    LET c0 == [NoCall EXCEPT !.inst = i, !.outDir = outDir]
        b1 == createBuildCommand(HostBuildOptions(b, outDir)) IN
    IF ~b1.ok
    THEN [c0 EXCEPT !.phase = "ConfigurationError", !.built = TRUE]
    ELSE [c0 EXCEPT !.phase = "spawned", !.built = TRUE,
                    !.buildCommand = Some(b1.cmd),
                    !.spawns = 1,
                    !.spawn = Some(SpawnArgs(b, b1.cmd, ambient))]

\* a tryBundle that starts the shell before it builds the command
TryBundleEntrySpawnFirst(b, i, outDir, runs, ambient) ==
    LET c0 == [NoCall EXCEPT !.inst = i, !.outDir = outDir] IN
    IF runs = "false"
    THEN [c0 EXCEPT !.phase = "returned false",
                    !.stderr = <<"cargo lambda cannot run locally. Switching to Docker bundling.">>]
    ELSE LET c1 == [c0 EXCEPT !.spawns = 1,
                              !.spawn = Some(SpawnArgs(b, <<>>, ambient))]
             b1 == createBuildCommand(HostBuildOptions(b, outDir)) IN
         IF ~b1.ok
         THEN [c1 EXCEPT !.phase = "ConfigurationError", !.built = TRUE]
         ELSE [c1 EXCEPT !.phase = "spawned", !.built = TRUE,
                         !.buildCommand = Some(b1.cmd)]

\* tryBundle up to the point where it blocks in spawnSync (or leaves early)
TryBundleEntry(b, i, outDir, runs, ambient) ==
    LET c0 == [NoCall EXCEPT !.inst = i, !.outDir = outDir] IN
    IF runs = "false"
    THEN [c0 EXCEPT !.phase = "returned false",
                    !.stderr = <<"cargo lambda cannot run locally. Switching to Docker bundling.">>]
    ELSE LET b1 == createBuildCommand(HostBuildOptions(b, outDir)) IN
         IF ~b1.ok
         THEN [c0 EXCEPT !.phase = "ConfigurationError", !.built = TRUE]
         ELSE [c0 EXCEPT !.phase = "spawned", !.built = TRUE,
                         !.buildCommand = Some(b1.cmd),
                         !.spawns = 1,
                         !.spawn = Some(SpawnArgs(b, b1.cmd, ambient))]


\* a tryBundle that falls back to Docker bundling when the build fails
AfterSpawnFallsBack(c, r) ==
    IF r.status # Some(0)
    THEN [c EXCEPT !.phase = "returned false", !.result = Some(r)]
    ELSE [c EXCEPT !.phase = "returned true", !.result = Some(r)]

\* tryBundle from the return of spawnSync: phase, and what is written to
\* the standard error by console.error
AfterSpawn(c, r) ==
    IF r.status # Some(0)
    THEN IF ~IsSome(r.stderr)
         \* cargo.stderr is null: cargo.stderr.toString() throws
         THEN [c EXCEPT !.phase = "TypeError", !.result = Some(r)]
         ELSE [c EXCEPT !.phase = "exited", !.result = Some(r),
                        !.stderr = <<Val(r.stderr), "Run cargo lambda errored.">>]
    ELSE [c EXCEPT !.phase = "returned true", !.result = Some(r)]

\* ----------------------------------------------------------------- state
Init ==
    /\ runsLocally = Undefined
    /\ tool \in ToolStates
    /\ probes = 0
    /\ hostOs \in HostPlatforms
    /\ processEnv \in AmbientEnvs
    /\ settingsEnv \in DefaultEnvs
    /\ instances = <<>>
    /\ call = NoCall
    /\ halted = FALSE


\* a process that goes on while the subprocess runs (spawn, not spawnSync)
RunningWhileSpawned == ~halted

\* the process is running JavaScript (not blocked in spawnSync, not exited)
Running == ~halted /\ call.phase # "spawned"


\* a constructor whose bundling options are static fields: every instance
\* shows the options of the latest construction
ConstructSharedOptions(props) ==
    /\ Running
    /\ Len(instances) < MaxInstances
    /\ runsLocally' = ResolveRunsLocally(runsLocally, tool)
    /\ probes' = probes + ProbesCalled(runsLocally)
    /\ instances' =
         [i \in 1..(Len(instances) + 1) |->
            NewBundling(props, runsLocally', settingsEnv, hostOs)]
    /\ UNCHANGED <<tool, hostOs, processEnv, settingsEnv, call, halted>>

\* new Bundling(props)
Construct(props) ==
    /\ Running
    /\ Len(instances) < MaxInstances
    /\ runsLocally' = ResolveRunsLocally(runsLocally, tool)
    /\ probes' = probes + ProbesCalled(runsLocally)
    /\ instances' =
         IF createBuildCommand(ContainerBuildOptions(props)).ok
         THEN Append(instances, NewBundling(props, runsLocally', settingsEnv, hostOs))
         ELSE instances
    /\ UNCHANGED <<tool, hostOs, processEnv, settingsEnv, call, halted>>

\* instances[i].local.tryBundle(outDir), up to spawnSync
TryBundle(i, outDir) ==
    /\ Running
    /\ i \in 1..Len(instances)
    /\ instances[i].local
    /\ call' = TryBundleEntry(instances[i], i, outDir, runsLocally, processEnv)
    /\ UNCHANGED <<runsLocally, tool, probes, hostOs, processEnv, settingsEnv, instances, halted>>

\* spawnSync returns r and tryBundle runs to its end
SpawnSyncReturns(r) ==
    /\ ~halted
    /\ call.phase = "spawned"
    /\ call' = AfterSpawn(call, r)
    /\ halted' = (call'.phase = "exited")
    /\ UNCHANGED <<runsLocally, tool, probes, hostOs, processEnv, settingsEnv, instances>>

\* the native tool is installed, removed or broken on the host
ToolChanges(t) ==
    /\ ~halted
    /\ t # tool
    /\ tool' = t
    /\ UNCHANGED <<runsLocally, probes, hostOs, processEnv, settingsEnv, instances, call, halted>>

DoConstruct == \E props \in BundlingPropsSet : Construct(props)
DoTryBundle == \E i \in 1..MaxInstances, outDir \in OutDirs : TryBundle(i, outDir)
DoSpawnSyncReturns == \E r \in SpawnResults : SpawnSyncReturns(r)
DoToolChanges == \E t \in ToolStates : ToolChanges(t)

Next == DoConstruct \/ DoTryBundle \/ DoSpawnSyncReturns \/ DoToolChanges

Spec == Init /\ [][Next]_vars

\* a process on a host for which tryBundle can build its command and so
\* reach spawnSync, with Settings.BUILD_ENVIRONMENT left unset
InitOnSupportedHost ==
    Init /\ hostOs \in SupportedPlatforms /\ settingsEnv = None

\* such a process when every subprocess that was spawned completes: the
\* operating system owes spawnSync a result
SpecCompleting ==
    InitOnSupportedHost /\ [][Next]_vars /\ WF_vars(DoSpawnSyncReturns)

\* ================================================================ claims
\* the instance the latest tryBundle call belongs to
CallInstance == instances[call.inst]
Called == call.phase # "none"
NotForced(b) == ~Truthy(b.props.forcedDockerBundling)

\* C1: once Bundling.runsLocally holds true or false, no step of the process
\* changes it, whatever a new probe would answer: every later construction
\* and every tryBundle reads the value the first construction stored.
C1_CacheNeverChanges ==
    [][runsLocally # Undefined => runsLocally' = runsLocally]_vars

\* the cache says unavailable, the tool has become available since, a second
\* instance was constructed and its tryBundle still saw the cached value
C1_Witness ==
    /\ runsLocally = "false"
    /\ tool = "ok"
    /\ Len(instances) = 2
    /\ call.inst = 2
    /\ call.phase = "returned false"

\* C2: an instance constructed with forcedDockerBundling = true has no local
\* executor, its image is the one of DockerImage.fromBuild, and no tryBundle
\* call (hence no host subprocess) ever belongs to it, whatever the cache says.
C2_ForcedMeansContainer ==
    \A i \in 1..Len(instances) :
        instances[i].props.forcedDockerBundling = "true" =>
            /\ ~instances[i].local
            /\ instances[i].image = "fromBuild"
            /\ call.inst # i

\* a forced instance while cargo lambda is cached as available and another
\* instance of the same process is building on the host
C2_Witness ==
    /\ runsLocally = "true"
    /\ Len(instances) = 2
    /\ instances[1].props.forcedDockerBundling = "true"
    /\ call.inst = 2
    /\ call.phase = "spawned"

\* C3: with forcedDockerBundling not set and the cache unavailable, tryBundle
\* returns false after writing one diagnostic to the standard error, without
\* building a host command and without spawning; the instance's image is the
\* built one, so Docker bundling is what runs.
C3_UnavailableFallsBack ==
    (Called /\ runsLocally = "false") =>
        /\ NotForced(CallInstance)
        /\ call.phase = "returned false"
        /\ ~call.built
        /\ call.spawns = 0
        /\ call.spawn = None
        /\ Len(call.stderr) = 1
        /\ CallInstance.image = "fromBuild"

\* tryBundle of an instance with forcedDockerBundling = false returned false
C3_Witness ==
    /\ Called
    /\ runsLocally = "false"
    /\ CallInstance.props.forcedDockerBundling = "false"
    /\ call.phase = "returned false"

\* C4: tryBundle returns true only for exit status 0, and every other outcome
\* of the subprocess (a nonzero status, or a null status because it was
\* killed or could not be spawned) ends with the captured standard error
\* written to the diagnostic channel and the process halted.
C4_NonzeroExitIsBuildFailure ==
    IsSome(call.result) =>
        LET r == Val(call.result) IN
        /\ (call.phase = "returned true") <=> (r.status = Some(0))
        /\ r.status # Some(0) =>
              /\ call.phase = "exited"
              /\ halted
              /\ IsSome(r.stderr)
              /\ call.stderr[1] = Val(r.stderr)

\* C5 as stated: a tryBundle call spawns the host subprocess exactly when
\* forcedDockerBundling is not set and the cache says available, and an
\* instance's image is the built one exactly when that condition is false.
C5_PolicyAsStated ==
    /\ Called =>
         ((call.spawns = 1) <=> (NotForced(CallInstance) /\ runsLocally = "true"))
    /\ \A i \in 1..Len(instances) :
         (instances[i].image = "fromBuild")
            <=> ~(NotForced(instances[i]) /\ runsLocally = "true")

\* C5 (amended): a tryBundle call spawns the host subprocess exactly when
\* forcedDockerBundling is not set, the cache says available and the host
\* command could be built for the host platform; an instance's image is the
\* built one exactly when forcedDockerBundling is set or the cache does not
\* say available.
C5_SelectorPolicy ==
    /\ Called =>
         ((call.spawns = 1) <=>
            /\ NotForced(CallInstance)
            /\ runsLocally = "true"
            /\ CallInstance.osPlatform \in SupportedPlatforms)
    /\ \A i \in 1..Len(instances) :
         (instances[i].image = "fromBuild")
            <=> (Truthy(instances[i].props.forcedDockerBundling) \/ runsLocally # "true")

\* a host build was started for an instance whose image is the placeholder,
\* next to an instance of the same process that is forced into Docker
C5_Witness ==
    /\ Len(instances) = 2
    /\ instances[2].props.forcedDockerBundling = "true"
    /\ instances[2].image = "fromBuild"
    /\ call.inst = 1
    /\ call.spawns = 1
    /\ instances[1].image = "fromRegistry(dummy)"

\* C6: a tryBundle call spawns at most one subprocess; a call that spawned
\* never returns false; a call returns false only without a spawn, with the
\* cache saying unavailable.
C6_NoRetryNoLateFallback ==
    /\ call.spawns <= 1
    /\ call.spawns = 1 => call.phase # "returned false"
    /\ call.phase = "returned false" =>
         /\ call.spawns = 0
         /\ call.result = None
         /\ runsLocally = "false"

\* the host build failed with exit status 1 and the process was halted
C6_Witness ==
    /\ call.phase = "exited"
    /\ call.spawns = 1
    /\ Val(call.result).status = Some(1)

\* C7: the environment of the host subprocess has exactly the keys of the
\* ambient environment and of the build environment, with the build
\* environment's value wherever it has the key and the ambient value
\* elsewhere; the environment of the instance (the container's) is the build
\* environment itself.
C7_SpawnEnvironment ==
    /\ IsSome(call.spawn) =>
         LET env == Val(call.spawn).env
             own == IF IsSome(CallInstance.inputEnv)
                    THEN Val(CallInstance.inputEnv) ELSE EmptyEnv IN
         /\ DOMAIN env = (DOMAIN processEnv) \cup (DOMAIN own)
         /\ \A k \in DOMAIN own : env[k] = own[k]
         /\ \A k \in (DOMAIN processEnv) \ (DOMAIN own) : env[k] = processEnv[k]
    /\ \A i \in 1..Len(instances) :
         instances[i].environment =
            InputEnv(instances[i].props.buildEnvironment, settingsEnv)

\* a subprocess whose environment overrides PATH, adds RUSTFLAGS and keeps CC
C7_Witness ==
    /\ IsSome(call.spawn)
    /\ IsSome(CallInstance.inputEnv)
    /\ "PATH" \in DOMAIN Val(CallInstance.inputEnv)
    /\ Val(CallInstance.inputEnv)["PATH"] # processEnv["PATH"]
    /\ "RUSTFLAGS" \notin DOMAIN processEnv
    /\ "CC" \notin DOMAIN Val(CallInstance.inputEnv)

\* C8: the build environment of an instance holds, for every variable, the
\* caller's value when props.buildEnvironment has the variable and otherwise
\* the value of Settings.BUILD_ENVIRONMENT when that has it.
C8_BuildEnvironmentMerged ==
    \A i \in 1..Len(instances) :
        LET caller == instances[i].props.buildEnvironment
            own == IF IsSome(caller) THEN Val(caller) ELSE EmptyEnv
            def == IF IsSome(settingsEnv) THEN Val(settingsEnv) ELSE EmptyEnv
            env == IF IsSome(instances[i].environment)
                   THEN Val(instances[i].environment) ELSE EmptyEnv IN
        /\ DOMAIN env = (DOMAIN own) \cup (DOMAIN def)
        /\ \A k \in DOMAIN own : env[k] = own[k]
        /\ \A k \in (DOMAIN def) \ (DOMAIN own) : env[k] = def[k]

\* C9: when building the host command fails in tryBundle, nothing has been
\* spawned; whenever something was spawned, the command had been built and
\* it is the command that was handed to the shell.
C9_ConfigurationErrorBeforeSpawn ==
    /\ call.phase = "ConfigurationError" =>
         /\ call.built
         /\ call.spawns = 0
         /\ call.spawn = None
    /\ IsSome(call.spawn) =>
         /\ call.built
         /\ IsSome(call.buildCommand)
         /\ Val(call.spawn).args[2] = Val(call.buildCommand)

\* tryBundle failed on a host platform the command builder does not support
C9_Witness ==
    /\ call.phase = "ConfigurationError"
    /\ CallInstance.osPlatform \notin SupportedPlatforms
    /\ runsLocally = "true"

\* the container command of instance i and the host command of the latest call
ContainerCommand(i) == instances[i].command[3]
BinContained(bin, cmd) == IsSome(bin) => Contains(Val(bin), cmd)
\* s occurs nowhere in the other request fields
Apart(s, other, bin) ==
    /\ ~Contains(s, other)
    /\ IsSome(bin) => ~Contains(s, Val(bin))

C11_PlaceholderNeverInContainer ==
    /\ \A i \in 1..Len(instances) :
         ~instances[i].local => instances[i].image = "fromBuild"
    /\ call.phase = "returned false" => CallInstance.image = "fromBuild"
    /\ (Called /\ CallInstance.image = "fromRegistry(dummy)") =>
         (call.built /\ call.phase # "returned false")

\* the tool went away after the first construction cached it as available:
\* a later instance still has the placeholder and its tryBundle still builds
C11_Witness ==
    /\ tool = "failing"
    /\ Len(instances) = 2
    /\ call.inst = 2
    /\ CallInstance.image = "fromRegistry(dummy)"
    /\ call.phase = "returned true"

\* C12: getCargoLambdaVersion is called at most once in a process, also when
\* the first call resolved the cache to unavailable; once an instance exists,
\* no step calls it again or changes the cached value.
C12_ProbedAtMostOnce ==
    [][ /\ probes' <= 1
        /\ probes' # probes => (runsLocally = Undefined /\ Len(instances) = 0)
        /\ Len(instances) >= 1 => (probes' = probes /\ runsLocally' = runsLocally)
      ]_vars

\* two constructions with different overrides after a probe that failed,
\* while a probe would succeed now: still one probe
C12_Witness ==
    /\ probes = 1
    /\ runsLocally = "false"
    /\ tool = "ok"
    /\ Len(instances) = 2
    /\ instances[1].props.forcedDockerBundling = "true"
    /\ instances[2].props.forcedDockerBundling = "false"

\* C13: the step that resolves the cache stores true when the probe succeeds
\* and false when it fails; from the first construction on, forced or not,
\* the cache is true or false, and no tryBundle call exists while it is
\* undefined.
C13_NeverUnknownAfterConstruction ==
    [][ /\ (runsLocally = Undefined /\ runsLocally' # Undefined) =>
              runsLocally' = (IF tool = "ok" THEN "true" ELSE "false")
        /\ Len(instances') >= 1 => runsLocally' \in {"true", "false"}
        /\ call'.phase # "none" => runsLocally' \in {"true", "false"}
      ]_vars

\* the first instance was forced into Docker while the probe failed, and the
\* tryBundle of a later instance found the cache resolved to unavailable
C13_Witness ==
    /\ tool = "failing"
    /\ runsLocally = "false"
    /\ Len(instances) = 2
    /\ instances[1].props.forcedDockerBundling = "true"
    /\ call.inst = 2
    /\ call.phase = "returned false"

\* C14: no step changes an instance that exists: a construction only adds
\* one, and the steps of tryBundle change neither the instances nor the
\* cache.
C14_PlanImmutable ==
    [][ /\ Len(instances') >= Len(instances)
        /\ \A i \in 1..Len(instances) : instances'[i] = instances[i]
        /\ call' # call => (instances' = instances /\ runsLocally' = runsLocally)
      ]_vars

\* a completed host build of the first instance, after a second instance
\* with another plan was constructed
C14_Witness ==
    /\ Len(instances) = 2
    /\ instances[2].image = "fromBuild"
    /\ instances[1].image = "fromRegistry(dummy)"
    /\ instances[2].environment # instances[1].environment
    /\ instances[2].command # instances[1].command
    /\ call.inst = 1
    /\ call.phase = "returned true"

\* the ways a tryBundle call that spawned can end
AfterSpawnOutcomes == {"returned true", "exited", "TypeError"}

\* C15: while tryBundle is blocked in spawnSync the process takes no step of
\* its own, and the call leaves that state only with the result of the
\* completed subprocess; a call that spawned and has an outcome has such a
\* result; and when subprocesses complete, every call that spawned reaches
\* an outcome.
C15_BlocksUntilCompletion ==
    /\ [][ call.phase = "spawned" =>
             /\ instances' = instances
             /\ runsLocally' = runsLocally
             /\ probes' = probes
             /\ call' # call =>
                  /\ call'.phase \in AfterSpawnOutcomes
                  /\ IsSome(call'.result)
                  /\ call'.inst = call.inst
         ]_vars
    /\ []((call.spawns = 1 /\ call.phase # "spawned") =>
            (call.phase \in AfterSpawnOutcomes /\ IsSome(call.result)))
    /\ (call.phase = "spawned") ~> (call.phase \in AfterSpawnOutcomes)

\* the subprocess was killed by a signal after the tool's state changed
\* twice during the build; tryBundle then halted the process
C15_Witness ==
    /\ call.phase = "exited"
    /\ halted
    /\ Val(call.result).status = None
    /\ Len(instances) = 1
    /\ runsLocally = "true"
    /\ tool = "failing"

====
